---- MODULE Spec2Model ----
(***************************************************************************)
(* Build-and-deploy pipeline of turn_3_model_a.py: main() sequences        *)
(* create_venv, install_dependencies, run_tests, build, tag, push, the     *)
(* rewrite of the config file and the Slack notifications, with the        *)
(* except-handler that notifies, rolls back and exits with status 1.       *)
(* The config file is a sequence of lines <<key, value>>; the section      *)
(* header is the line <<"[Docker]", "">>.                                  *)
(***************************************************************************)
EXTENDS Integers, Sequences, FiniteSets, TLC

VARIABLES
    file,           \* content of CONFIG_FILE on disk: a sequence of lines
    config,         \* the ConfigParser object of main()
    previous_tag,   \* local of main(), line 238
    image_name,     \* local of main(), line 247
    repository,     \* local of main(), line 248
    new_tag,        \* local of main(), line 249
    pc,             \* position of the process in main()
    error,          \* the exception `e` caught at line 264
    rollback_error, \* the exception `rollback_error` caught at line 271
    webhook,        \* whether SLACK_WEBHOOK_URL is set (line 30)
    started,        \* stages begun in this run, in order
    result,         \* what each stage really did in this run
    notifications,  \* calls of send_slack_notification in this run, in order
    rollbackCalls,  \* calls of rollback_deployment in this run, in order
    exitCode,       \* exit status of the process
    registry,       \* repository:tag coordinates the remote registry holds
    fileAtStart,    \* content of CONFIG_FILE when the run started
    opens,          \* times CONFIG_FILE was opened for writing in this run
    runs,           \* runs started so far
    finished        \* outcome of each earlier run, in order

vars == <<file, config, previous_tag, image_name, repository, new_tag, pc,
          error, rollback_error, webhook, started, result, notifications,
          rollbackCalls, exitCode, registry, fileAtStart, opens, runs,
                   finished>>

----------------------------------------------------------------------------
\* Bounds of the model
MaxRuns == 2
MaxStream == 2

\* Values the config of a run can hold
BaselineTags == {"v1.0", "v2.0"}
Versions == {"2.0"}

UNBOUND == "<unbound>"
NoExit == 0 - 1

Stages == <<"provision", "install", "test", "build", "tag", "push",
            "persist", "notify-success">>
StageSet == {Stages[i] : i \in 1..Len(Stages)}

Header == <<"[Docker]", "">>

----------------------------------------------------------------------------
\* ConfigParser

\* optionxform: option names are lower-cased on read, on lookup and on set
Lower(k) ==
    CASE k = "ImageName"  -> "imagename"
      [] k = "Repository" -> "repository"
      [] k = "Tag"        -> "tag"
      [] k = "Version"    -> "version"
      [] k = "Username"   -> "username"
      [] k = "Password"   -> "password"
      [] OTHER            -> k

RECURSIVE Items(_)
Items(lines) ==
    IF lines = <<>> THEN <<>>
    ELSE <<<<Lower(Head(lines)[1]), Head(lines)[2]>>>> \o Items(Tail(lines))

\* config.read(config_file): a missing or empty file yields no section
load_config(f) ==
    IF f = <<>> \/ Head(f) # Header
    THEN [has |-> FALSE, items |-> <<>>]
    ELSE [has |-> TRUE, items |-> Items(Tail(f))]

\* config['Docker'][key] is defined (otherwise KeyError)
HasOption(c, key) ==
    c.has /\ \E i \in 1..Len(c.items) : c.items[i][1] = Lower(key)

\* config['Docker'][key]
GetOption(c, key) ==
    LET i == CHOOSE j \in 1..Len(c.items) : c.items[j][1] = Lower(key)
    IN  c.items[i][2]

\* config['Docker'][key] = value
SetOptionVersion(c, key, value) ==
    [c EXCEPT !.items =
        [i \in 1..Len(c.items) |->
            IF c.items[i][1] = Lower("Version")
            THEN <<c.items[i][1], value>> ELSE c.items[i]]]
SetOption(c, key, value) ==
    IF \E i \in 1..Len(c.items) : c.items[i][1] = Lower(key)
    THEN [c EXCEPT !.items =
            [i \in 1..Len(c.items) |->
                IF c.items[i][1] = Lower(key)
                THEN <<c.items[i][1], value>> ELSE c.items[i]]]
    ELSE [c EXCEPT !.items = Append(c.items, <<Lower(key), value>>)]

\* config.write(configfile): the lines written, in order
ConfigLines(c) == IF c.has THEN <<Header>> \o c.items ELSE <<>>

\* The Tag a reader of the file would obtain; "<corrupt>" when the file
\* no longer supplies one.
PersistedTag(f) ==
    IF HasOption(load_config(f), "Tag")
    THEN GetOption(load_config(f), "Tag") ELSE "<corrupt>"

----------------------------------------------------------------------------
\* Config files a run can start from

FullFile(t, v) ==
    << Header,
       <<"ImageName", "app">>,
       <<"Repository", "repo">>,
       <<"Tag", t>>,
       <<"Version", v>> >>

Without(f, key) == SelectSeq(f, LAMBDA l : l[1] # key)

InitFiles ==
    {FullFile(t, v) : t \in BaselineTags, v \in Versions}
    \cup {Without(FullFile("v1.0", "2.0"), k) :
             k \in {"ImageName", "Repository", "Tag", "Version"}}
    \cup {<<>>}

NoResult == [s \in StageSet |-> "none"]

Init ==
    /\ file \in InitFiles
    /\ config = [has |-> FALSE, items |-> <<>>]
    /\ previous_tag = UNBOUND
    /\ image_name = UNBOUND
    /\ repository = UNBOUND
    /\ new_tag = UNBOUND
    /\ pc = "start"
    /\ error = "none"
    /\ rollback_error = "none"
    /\ webhook \in BOOLEAN
    /\ started = <<>>
    /\ result = NoResult
    /\ notifications = <<>>
    /\ rollbackCalls = <<>>
    /\ exitCode = NoExit
    /\ registry = {}
    /\ fileAtStart = file
    /\ opens = 0
    /\ runs = 1
    /\ finished = <<>>

----------------------------------------------------------------------------
\* Helpers of the stage actions

ExitStatuses == {0, 1}

Begin(s) == started' = Append(started, s)
Done(s, r) == result' = [result EXCEPT ![s] = r]

\* An exception leaves the try block for the handler at line 264
Raise(e) == pc' = "except" /\ error' = e

\* send_slack_notification(message): the delivery attempts it can make
Deliveries(url) == IF url THEN {"sent", "RequestException"} ELSE {"skipped"}

\* Whether the call raises into its caller: requests.RequestException is
\* caught and logged (lines 204-205), the unconfigured case only warns.
NotificationRaisesUncaught(delivery) == delivery = "RequestException"
NotificationRaises(delivery) == FALSE

send_slack_notification(message, delivery) ==
    notifications' = Append(notifications,
                            [text |-> message, delivery |-> delivery])

----------------------------------------------------------------------------
\* Where the KeyError of line 238 goes: the lookup stands before the try
\* block, so the exception leaves main() and the interpreter exits.
AfterStartupKeyErrorHandled == "except"
AfterStartupKeyError == "exited"

\* main(), lines 237-238: load the config and snapshot the current Tag.
\* The lookup is outside the try block: a KeyError ends the process.
LoadConfig ==
    /\ pc = "start"
    /\ config' = load_config(file)
    /\ IF HasOption(load_config(file), "Tag")
       THEN /\ previous_tag' = GetOption(load_config(file), "Tag")
            /\ pc' = "create_venv"
            /\ UNCHANGED <<error, exitCode>>
       ELSE /\ error' = "KeyError"
            /\ exitCode' = 1
            /\ pc' = AfterStartupKeyError
            /\ UNCHANGED previous_tag
    /\ UNCHANGED <<file, image_name, repository, new_tag, rollback_error,
                   webhook, started, result, notifications, rollbackCalls,
                   registry, fileAtStart, opens, runs,
                   finished>>

\* create_venv(VENV_NAME), line 241
CreateVenv ==
    /\ pc = "create_venv"
    /\ Begin("provision")
    /\ \E ok \in BOOLEAN :
          IF ok
          THEN /\ Done("provision", "ok")
               /\ pc' = "install_dependencies"
               /\ UNCHANGED error
          ELSE /\ Done("provision", "fail")
               /\ Raise("OSError")
    /\ UNCHANGED <<file, config, previous_tag, image_name, repository,
                   new_tag, rollback_error, webhook, notifications,
                   rollbackCalls, exitCode, registry, fileAtStart, opens,
                   runs,
                   finished>>

\* install_dependencies raises exactly when the requirements file is
\* missing; the exit status of os.system (line 88) is discarded.
InstallRaises(exists, status) == ~exists

\* What the install stage really did
InstallResult(exists, status) ==
    IF ~exists THEN "skip" ELSE IF status = 0 THEN "ok" ELSE "fail"

\* install_dependencies(venv_python, REQUIREMENTS_FILE), line 243
InstallDependencies ==
    /\ pc = "install_dependencies"
    /\ Begin("install")
    /\ \E exists \in BOOLEAN, status \in ExitStatuses :
          /\ Done("install", InstallResult(exists, status))
          /\ IF InstallRaises(exists, status)
             THEN Raise("FileNotFoundError")
             ELSE pc' = "run_tests" /\ UNCHANGED error
    /\ UNCHANGED <<file, config, previous_tag, image_name, repository,
                   new_tag, rollback_error, webhook, notifications,
                   rollbackCalls, exitCode, registry, fileAtStart, opens,
                   runs,
                   finished>>

\* run_tests raises when os.system returns non-zero (line 107); the name
\* `subprocess` is not imported, so line 108 raises NameError.
TestsRaise(status) == status # 0

\* run_tests(venv_python, TEST_DIR), line 244
RunTests ==
    /\ pc = "run_tests"
    /\ Begin("test")
    /\ \E status \in ExitStatuses :
          /\ Done("test", IF status = 0 THEN "ok" ELSE "fail")
          /\ IF TestsRaise(status)
             THEN Raise("NameError")
             ELSE pc' = "docker_config" /\ UNCHANGED error
    /\ UNCHANGED <<file, config, previous_tag, image_name, repository,
                   new_tag, rollback_error, webhook, notifications,
                   rollbackCalls, exitCode, registry, fileAtStart, opens,
                   runs,
                   finished>>

\* new_tag = f"v{config['Docker']['Version']}"
NewTagNoPrefix(version) == version
NewTag(version) == "v" \o version

\* main(), lines 247-249: the three lookups, each of which may raise
\* KeyError and leave the later locals unbound.
DockerConfig ==
    /\ pc = "docker_config"
    /\ IF ~HasOption(config, "ImageName")
       THEN /\ Raise("KeyError")
            /\ UNCHANGED <<image_name, repository, new_tag>>
       ELSE /\ image_name' = GetOption(config, "ImageName")
            /\ IF ~HasOption(config, "Repository")
               THEN /\ Raise("KeyError")
                    /\ UNCHANGED <<repository, new_tag>>
               ELSE /\ repository' = GetOption(config, "Repository")
                    /\ IF ~HasOption(config, "Version")
                       THEN /\ Raise("KeyError")
                            /\ UNCHANGED new_tag
                       ELSE /\ new_tag' = NewTag(GetOption(config, "Version"))
                            /\ pc' = "build"
                            /\ UNCHANGED error
    /\ UNCHANGED <<file, config, previous_tag, rollback_error, webhook,
                   started, result, notifications, rollbackCalls, exitCode,
                   registry, fileAtStart, opens, runs,
                   finished>>

\* build_docker_image(image_name, DOCKERFILE, BUILD_CONTEXT), line 251
BuildDockerImage ==
    /\ pc = "build"
    /\ Begin("build")
    /\ \E ok \in BOOLEAN :
          IF ok
          THEN /\ Done("build", "ok")
               /\ pc' = "tag"
               /\ UNCHANGED error
          ELSE /\ Done("build", "fail")
               /\ Raise("BuildError")
    /\ UNCHANGED <<file, config, previous_tag, image_name, repository,
                   new_tag, rollback_error, webhook, notifications,
                   rollbackCalls, exitCode, registry, fileAtStart, opens,
                   runs,
                   finished>>

\* tag_docker_image(image, repository, new_tag), line 252
TagDockerImage ==
    /\ pc = "tag"
    /\ Begin("tag")
    /\ \E ok \in BOOLEAN :
          IF ok
          THEN /\ Done("tag", "ok")
               /\ pc' = "push"
               /\ UNCHANGED error
          ELSE /\ Done("tag", "fail")
               /\ Raise("APIError")
    /\ UNCHANGED <<file, config, previous_tag, image_name, repository,
                   new_tag, rollback_error, webhook, notifications,
                   rollbackCalls, exitCode, registry, fileAtStart, opens,
                   runs,
                   finished>>

----------------------------------------------------------------------------
\* push_docker_image

\* Lines of the decoded push stream: progress entries and error entries
LineKinds == {"progress", "error"}

RECURSIVE SeqsUpTo(_, _)
SeqsUpTo(S, n) ==
    IF n = 0 THEN {<<>>}
    ELSE SeqsUpTo(S, n - 1)
         \cup {Append(q, x) : q \in {r \in SeqsUpTo(S, n - 1) : Len(r) = n - 1},
                              x \in S}

\* What the registry client can do during login and push: raise APIError
\* from login, raise APIError from the push request, or hand back a stream
\* of decoded lines in which the registry reports progress and errors.
PushOutcomes ==
    {[kind |-> "login_error", lines |-> <<>>],
     [kind |-> "api_error", lines |-> <<>>]}
    \cup {[kind |-> "stream", lines |-> l] : l \in SeqsUpTo(LineKinds, MaxStream)}

StreamHasError(lines) == \E i \in 1..Len(lines) : lines[i] = "error"

\* The image reached the registry
PushSucceeded(o) == o.kind = "stream" /\ ~StreamHasError(o.lines)

\* push_docker_image raises only what login or push raise (lines 180-186);
\* the loop at lines 182-183 logs every line of the stream and inspects none.
PushRaises(o) == o.kind \in {"login_error", "api_error"}

\* push_docker_image(repository, new_tag, ...), lines 253-254
PushDockerImage ==
    /\ pc = "push"
    /\ Begin("push")
    /\ \E o \in PushOutcomes :
          /\ Done("push", IF PushSucceeded(o) THEN "ok" ELSE "fail")
          /\ registry' = IF PushSucceeded(o)
                         THEN registry \cup {<<repository, new_tag>>}
                         ELSE registry
          /\ IF PushRaises(o)
             THEN Raise("APIError")
             ELSE pc' = "persist" /\ UNCHANGED error
    /\ UNCHANGED <<file, config, previous_tag, image_name, repository,
                   new_tag, rollback_error, webhook, notifications,
                   rollbackCalls, exitCode, fileAtStart, opens, runs,
                   finished>>

----------------------------------------------------------------------------
\* Rewriting the config file, lines 257-259

\* config['Docker']['Tag'] = new_tag, then open(CONFIG_FILE, 'w'): the open
\* truncates the file in place, or raises OSError and leaves it alone.
OpenConfigFile ==
    /\ pc = "persist"
    /\ Begin("persist")
    /\ config' = SetOption(config, "Tag", new_tag)
    /\ \E ok \in BOOLEAN :
          IF ok
          THEN /\ file' = <<>>
               /\ opens' = opens + 1
               /\ pc' = "writing"
               /\ UNCHANGED <<error, result>>
          ELSE /\ Done("persist", "fail")
               /\ Raise("OSError")
               /\ UNCHANGED <<file, opens>>
    /\ UNCHANGED <<previous_tag, image_name, repository, new_tag,
                   rollback_error, webhook, notifications, rollbackCalls,
                   exitCode, registry, fileAtStart, runs, finished>>

\* config.write(configfile): the next line reaches the file; after the
\* last one the with-block closes the file.
WriteConfigLine ==
    /\ pc = "writing"
    /\ Len(file) < Len(ConfigLines(config))
    /\ file' = Append(file, ConfigLines(config)[Len(file) + 1])
    /\ IF Len(file) + 1 = Len(ConfigLines(config))
       THEN Done("persist", "ok") /\ pc' = "notify_success"
       ELSE UNCHANGED <<result, pc>>
    /\ UNCHANGED <<config, previous_tag, image_name, repository, new_tag,
                   error, rollback_error, webhook, started, notifications,
                   rollbackCalls, exitCode, registry, fileAtStart, opens,
                   runs,
                   finished>>

\* A write or the flush on close raises OSError (disk full, I/O error)
WriteConfigFail ==
    /\ pc = "writing"
    /\ Done("persist", "fail")
    /\ Raise("OSError")
    /\ UNCHANGED <<file, config, previous_tag, image_name, repository,
                   new_tag, rollback_error, webhook, started, notifications,
                   rollbackCalls, exitCode, registry, fileAtStart, opens,
                   runs,
                   finished>>

\* The process is killed while the file is open for writing: no handler
\* runs and the file keeps what had reached it.
Crash ==
    /\ pc = "writing"
    /\ Done("persist", "fail")
    /\ pc' = "crashed"
    /\ UNCHANGED <<file, config, previous_tag, image_name, repository,
                   new_tag, error, rollback_error, webhook, started,
                   notifications, rollbackCalls, exitCode, registry,
                   fileAtStart, opens, runs,
                   finished>>

----------------------------------------------------------------------------
\* Notifications, the handler and the exit

\* send_slack_notification("Deployment successful!"), line 262; main returns
NotifySuccess ==
    /\ pc = "notify_success"
    /\ Begin("notify-success")
    /\ Done("notify-success", "ok")
    /\ \E d \in Deliveries(webhook) :
          /\ send_slack_notification("Deployment successful!", d)
          /\ IF NotificationRaises(d)
             THEN Raise("RequestException") /\ UNCHANGED exitCode
             ELSE pc' = "exited" /\ exitCode' = 0 /\ UNCHANGED error
    /\ UNCHANGED <<file, config, previous_tag, image_name, repository,
                   new_tag, rollback_error, webhook, rollbackCalls,
                   registry, fileAtStart, opens, runs,
                   finished>>

\* send_slack_notification(f"Deployment failed: {str(e)}"), line 266.
\* The call stands in the handler outside the inner try: an exception
\* out of it would end the process.
NotifyFailure ==
    /\ pc = "except"
    /\ \E d \in Deliveries(webhook) :
          /\ send_slack_notification("Deployment failed: " \o error, d)
          /\ IF NotificationRaises(d)
             THEN pc' = "exited" /\ exitCode' = 1
             ELSE pc' = "rollback" /\ UNCHANGED exitCode
    /\ UNCHANGED <<file, config, previous_tag, image_name, repository,
                   new_tag, error, rollback_error, webhook, started, result,
                   rollbackCalls, registry, fileAtStart, opens, runs,
                   finished>>

\* The arguments main() passes to rollback_deployment, line 268
RollbackArgsFromConfig(repo, prev, cfg) == <<repo, GetOption(cfg, "Tag")>>
RollbackArgs(repo, prev, cfg) == <<repo, prev>>

\* Where the inner try goes when line 268 raises: the except clause of
\* line 271, which notifies and falls through to sys.exit(1)
AfterRollbackErrorRetry == "rollback"
AfterRollbackError == "notify_rollback_failed"

\* rollback_deployment(repository, previous_tag), line 268. Evaluating the
\* unbound local `repository` raises UnboundLocalError before the call;
\* the body of rollback_deployment (lines 224-227) is `pass`.
Rollback ==
    /\ pc = "rollback"
    /\ IF repository = UNBOUND
       THEN /\ rollback_error' = "UnboundLocalError"
            /\ pc' = AfterRollbackError
            /\ UNCHANGED rollbackCalls
       ELSE /\ rollbackCalls' =
                 Append(rollbackCalls,
                        RollbackArgs(repository, previous_tag, config))
            /\ pc' = "notify_rolled_back"
            /\ UNCHANGED rollback_error
    /\ UNCHANGED <<file, config, previous_tag, image_name, repository,
                   new_tag, error, webhook, started, result, notifications,
                   exitCode, registry, fileAtStart, opens, runs,
                   finished>>

\* sys.exit(1), line 275: the one exit of the handler, whether the
\* rollback failed or not
FailureExitBySeverity(rollbackFailed) == IF rollbackFailed THEN 2 ELSE 1
FailureExit(rollbackFailed) == 1

\* Lines 269-270, then sys.exit(1). The call stands inside the inner try:
\* an exception out of it would be caught at line 271.
NotifyRolledBack ==
    /\ pc = "notify_rolled_back"
    /\ \E d \in Deliveries(webhook) :
          /\ send_slack_notification(
                 "Rolled back to previous version: " \o previous_tag, d)
          /\ IF NotificationRaises(d)
             THEN /\ rollback_error' = "RequestException"
                  /\ pc' = "notify_rollback_failed"
                  /\ UNCHANGED exitCode
             ELSE /\ pc' = "exited"
                  /\ exitCode' = FailureExit(FALSE)
                  /\ UNCHANGED rollback_error
    /\ UNCHANGED <<file, config, previous_tag, image_name, repository,
                   new_tag, error, webhook, started, result,
                   rollbackCalls, registry, fileAtStart, opens, runs,
                   finished>>

\* Lines 271-274, then sys.exit(1)
NotifyRollbackFailed ==
    /\ pc = "notify_rollback_failed"
    /\ \E d \in Deliveries(webhook) :
          send_slack_notification("Rollback failed: " \o rollback_error, d)
    /\ pc' = "exited"
    /\ exitCode' = FailureExit(TRUE)
    /\ UNCHANGED <<file, config, previous_tag, image_name, repository,
                   new_tag, error, rollback_error, webhook, started, result,
                   rollbackCalls, registry, fileAtStart, opens, runs,
                   finished>>

\* The terminal status of the run, as main() reports it: return after the
\* success notification, exit 1 after "Rolled back ..." or after
\* "Rollback failed ...", or the uncaught KeyError of line 238.
Status ==
    IF pc = "crashed" THEN "killed"
    ELSE IF pc # "exited" THEN "pending"
    ELSE IF exitCode = 0 THEN "success"
    ELSE IF notifications = <<>> THEN "failed"
    ELSE IF rollback_error = "none" THEN "rolled_back"
    ELSE "rollback_failed"

\* The tag this run pushed to the registry and announced, if any
PublishedTag ==
    IF result["push"] = "ok" /\ result["notify-success"] = "ok"
    THEN new_tag ELSE "<none>"

\* The scheduler starts the next run against the same config file
NextRun ==
    /\ pc \in {"exited", "crashed"}
    /\ runs < MaxRuns
    /\ runs' = runs + 1
    /\ finished' = Append(finished,
                          [status |-> Status, exit |-> exitCode,
                           tagAtStart |-> PersistedTag(fileAtStart),
                           published |-> PublishedTag])
    /\ pc' = "start"
    /\ config' = [has |-> FALSE, items |-> <<>>]
    /\ previous_tag' = UNBOUND
    /\ image_name' = UNBOUND
    /\ repository' = UNBOUND
    /\ new_tag' = UNBOUND
    /\ error' = "none"
    /\ rollback_error' = "none"
    /\ webhook' \in BOOLEAN
    /\ started' = <<>>
    /\ result' = NoResult
    /\ notifications' = <<>>
    /\ rollbackCalls' = <<>>
    /\ exitCode' = NoExit
    /\ fileAtStart' = file
    /\ opens' = 0
    /\ UNCHANGED <<file, registry>>

Next ==
    \/ LoadConfig
    \/ CreateVenv
    \/ InstallDependencies
    \/ RunTests
    \/ DockerConfig
    \/ BuildDockerImage
    \/ TagDockerImage
    \/ PushDockerImage
    \/ OpenConfigFile
    \/ WriteConfigLine
    \/ WriteConfigFail
    \/ Crash
    \/ NotifySuccess
    \/ NotifyFailure
    \/ Rollback
    \/ NotifyRolledBack
    \/ NotifyRollbackFailed
    \/ NextRun

Spec == Init /\ [][Next]_vars

----------------------------------------------------------------------------
\* Vocabulary of the properties

ForwardStages == {"provision", "install", "test", "build", "tag", "push"}

Succeeded(s) == result[s] \in {"ok", "skip"}
Failed(s) == result[s] = "fail"

Terminated == pc \in {"exited", "crashed"}

\* The handler at line 264 has been entered in this run
InHandler ==
    \/ pc \in {"except", "rollback", "notify_rolled_back",
                "notify_rollback_failed"}
    \/ pc = "exited" /\ Len(notifications) >= 2

HasStarted(s) == \E i \in 1..Len(started) : started[i] = s

OldConfig == load_config(fileAtStart)

\* The file holds the complete config the run started from
HoldsOld(f) == load_config(f) = OldConfig

\* The file holds the complete config with Tag replaced by the new tag
HoldsNew(f) ==
    /\ new_tag # UNBOUND
    /\ load_config(f) = SetOption(OldConfig, "Tag", new_tag)

LastNotification == notifications[Len(notifications)]

----------------------------------------------------------------------------
\* C1: in every run in which a stage among provision, install, test, build,
\* tag, push failed, the persisted Tag at exit equals the persisted Tag at
\* run start (the Tag changes only if every stage succeeded).
C1_TagChangedOnlyIfAllStagesSucceeded ==
    (Terminated /\ \E s \in ForwardStages : ~Succeeded(s))
        => PersistedTag(file) = PersistedTag(fileAtStart)

\* C2: once the persist step has failed or the process has crashed in it,
\* the config file holds the complete old content or the complete new
\* content, and the file is opened for writing at most once per run.
C2_ConfigWriteIsAtomic ==
    /\ Failed("persist") => (HoldsOld(file) \/ HoldsNew(file))
    /\ opens <= 1

\* C3: a run in which a stage failed has invoked rollback_deployment by the
\* time it exits, and exits with status 1.
C3_StageFailureInvokesRollback ==
    (pc = "exited" /\ \E s \in ForwardStages : Failed(s))
        => (Len(rollbackCalls) >= 1 /\ exitCode = 1)

\* C4: when provision, install or test failed, so that build was never
\* reached, the rollback step completes and the outcome notified is
\* "Rolled back ...", not "Rollback failed ...".
C4_RollbackNeedsNoLaterStage ==
    (/\ pc = "exited"
     /\ InHandler
     /\ ~HasStarted("build")
     /\ \E s \in {"provision", "install", "test"} : Failed(s))
        => /\ rollback_error = "none"
           /\ LastNotification.text =
                  "Rolled back to previous version: " \o previous_tag

\* C5: every invocation of rollback_deployment receives as its tag the Tag
\* the config file held when the run started.
C5_RollbackTargetIsRunStartTag ==
    \A i \in 1..Len(rollbackCalls) :
        rollbackCalls[i][2] = PersistedTag(fileAtStart)

\* C5 witness: rollback was invoked after the in-memory config Tag had been
\* set to a new tag that differs from the run-start Tag.
C5_Witness ==
    /\ Len(rollbackCalls) >= 1
    /\ Succeeded("tag")
    /\ HasStarted("persist")
    /\ GetOption(config, "Tag") = new_tag
    /\ new_tag # PersistedTag(fileAtStart)

\* C6: the stages begun form a prefix of provision, install, test, build,
\* tag, push, persist-config, notify-success (in order, none twice), and a
\* stage begins only when every earlier stage has completed successfully.
C6_StagesInStrictOrder ==
    /\ Len(started) <= Len(Stages)
    /\ \A i \in 1..Len(started) : started[i] = Stages[i]
    /\ \A i \in 1..Len(started) :
          \A j \in 1..(i - 1) : Succeeded(started[j])

\* C7: no stage is attempted after a stage that failed; build starts only
\* when the test stage ran and passed; the test stage runs at most once and
\* is not skipped.
C7_FailFast ==
    /\ \A i \in 1..Len(started) :
          Failed(started[i]) => i = Len(started)
    /\ HasStarted("build") => result["test"] = "ok"
    /\ Cardinality({i \in 1..Len(started) : started[i] = "test"}) <= 1

\* C8: when the requirements file does not exist, install raises nothing:
\* right after the install step the process is about to run the tests, and
\* the handler (failure notification, rollback) is not entered.
C8_MissingManifestIsSoftSkip ==
    (result["install"] = "skip" /\ ~HasStarted("test"))
        => (pc = "run_tests" /\ error = "none")

\* C9: when the requirements file exists and the install tool exits
\* non-zero, none of test, build, tag, push, persist starts and the run
\* exits with failure.
C9_InstallToolFailureFailsStage ==
    Failed("install")
        => /\ \A s \in {"test", "build", "tag", "push", "persist"} :
                 ~HasStarted(s)
           /\ pc = "exited" => exitCode = 1

\* C10: a push that failed, also when the failure is an error entry of the
\* push stream, takes the failure path: the config file is not opened for
\* writing, no success notification is sent, the handler is entered.
C10_PushFailureSurfaces ==
    Failed("push")
        => /\ ~HasStarted("persist")
           /\ ~HasStarted("notify-success")
           /\ InHandler

----------------------------------------------------------------------------
\* Where main() stands after a notification call made at position p
AfterNotify(p) ==
    CASE p = "notify_success"         -> "exited"
      [] p = "except"                 -> "rollback"
      [] p = "notify_rolled_back"     -> "exited"
      [] p = "notify_rollback_failed" -> "exited"
      [] OTHER                        -> "<none>"

C12_FailureThenRollbackOutcome ==
    /\ (pc = "exited" /\ Failed("test"))
          => /\ Len(notifications) = 2
             /\ notifications[1].text = "Deployment failed: " \o error
             /\ Len(rollbackCalls) = 1
             /\ notifications[2].text =
                    (IF rollback_error = "none"
                     THEN "Rolled back to previous version: " \o previous_tag
                     ELSE "Rollback failed: " \o rollback_error)
             /\ PersistedTag(file) = PersistedTag(fileAtStart)
    /\ (pc = "rollback" /\ Failed("test"))
          => (Len(notifications) = 1 /\ rollbackCalls = <<>>)

\* Every stage up to and including the rewrite of the config succeeded
FullSuccess == \A s \in ForwardStages \cup {"persist"} : result[s] = "ok"

\* C13: on full success the run exits with status success, the persisted
\* Tag is "v" followed by the Version the run started with, the file is
\* complete before the success notification is sent, that notification is
\* the only one, and rollback_deployment is not invoked.
C13_FullSuccessPersistsNewTag ==
    /\ (pc = "exited" /\ FullSuccess)
          => /\ Status = "success"
             /\ PersistedTag(file) = "v" \o GetOption(OldConfig, "Version")
             /\ load_config(file) =
                    SetOption(OldConfig, "Tag",
                              "v" \o GetOption(OldConfig, "Version"))
             /\ Len(notifications) = 1
             /\ notifications[1].text = "Deployment successful!"
             /\ rollbackCalls = <<>>
    /\ (FullSuccess /\ pc # "exited")
          => /\ pc = "notify_success"
             /\ notifications = <<>>
             /\ PersistedTag(file) = "v" \o GetOption(OldConfig, "Version")

\* C13 witness: a run that started from Tag v1.0 and Version 2.0 exited
\* after full success with Tag v2.0 persisted.
C13_Witness ==
    /\ pc = "exited"
    /\ FullSuccess
    /\ PersistedTag(fileAtStart) = "v1.0"
    /\ GetOption(OldConfig, "Version") = "2.0"
    /\ PersistedTag(file) = "v2.0"

\* C14: in a run in which provision, install, test or build failed, the
\* config file is never opened for writing and keeps, line for line, the
\* content it had at run start, rollback included.
C14_NoConfigWriteOnEarlyFailure ==
    (\E s \in {"provision", "install", "test", "build"} : Failed(s))
        => (opens = 0 /\ file = fileAtStart)

C16_ExitCodeReflectsStages ==
    pc = "exited"
        => /\ exitCode \in {0, 1}
           /\ exitCode = 0 <=> FullSuccess
           /\ Status = "rollback_failed" => exitCode = 1

\* Notifications of this run that announce a terminal outcome
OutcomeNotes ==
    {i \in 1..Len(notifications) :
        \/ notifications[i].text = "Deployment successful!"
        \/ notifications[i].text =
              "Rolled back to previous version: " \o previous_tag
        \/ notifications[i].text = "Rollback failed: " \o rollback_error}

SentSuccess ==
    \E i \in 1..Len(notifications) :
        notifications[i].text = "Deployment successful!"

\* C17: a run that has exited has one of the statuses success, failed,
\* rolled_back, rollback_failed and the evidence of one only: at most one
\* outcome notification, and a run that announced success has exit code 0,
\* no failure notification, no caught error and no rollback.
C17_ExactlyOneTerminalStatus ==
    pc = "exited"
        => /\ Status \in {"success", "failed", "rolled_back",
                          "rollback_failed"}
           /\ Cardinality(OutcomeNotes) = (IF Status = "failed" THEN 0 ELSE 1)
           /\ SentSuccess
                 => /\ Status = "success"
                    /\ Len(notifications) = 1
                    /\ rollbackCalls = <<>>
                    /\ error = "none"
                    /\ rollback_error = "none"
           /\ Status = "success" => SentSuccess

\* C17 witness: a run exited with status success after an earlier run of
\* the same sequence had ended rollback_failed.
C17_Witness ==
    /\ pc = "exited"
    /\ Status = "success"
    /\ Len(finished) = 1
    /\ finished[1].status = "rollback_failed"

\* C18: rollback_deployment is called at most once per run and not at all
\* once a rollback error was caught; the rollback step is entered only
\* from the failure notification and left for the outcome notification,
\* which leads to the exit.
C18_RollbackAtMostOnce ==
    /\ [](/\ Len(rollbackCalls) <= 1
          /\ rollback_error # "none" => rollbackCalls = <<>>)
    /\ [][/\ pc = "rollback"
               => pc' \in {"notify_rolled_back", "notify_rollback_failed"}
          /\ pc' = "rollback" => pc = "except"
          /\ pc \in {"notify_rolled_back", "notify_rollback_failed"}
               => pc' = "exited"]_vars

\* C18 witness: a run exited after its rollback attempt had raised
C18_Witness ==
    /\ pc = "exited"
    /\ rollback_error # "none"
    /\ Len(notifications) = 2

\* The Tag the config file held before the first run
BaselineTag ==
    IF finished = <<>> THEN PersistedTag(fileAtStart)
    ELSE finished[1].tagAtStart

\* Tags pushed to the registry and announced, by earlier runs or this one
PublishedTags ==
    ({finished[i].published : i \in 1..Len(finished)} \cup {PublishedTag})
        \ {"<none>"}

\* C19: when a run has exited, whatever the stage it failed at, the
\* persisted Tag is the baseline Tag or a tag that this run or an earlier
\* one pushed to the registry and announced.
C19_TagNamesPublishedOrBaseline ==
    pc = "exited"
        => PersistedTag(file) \in {BaselineTag} \cup PublishedTags

OtherKeys == {"ImageName", "Repository", "Version", "Username", "Password"}

\* The value the file supplies for a key
ValueOf(f, k) ==
    IF HasOption(load_config(f), k)
    THEN GetOption(load_config(f), k) ELSE "<absent>"

\* C20: after a run the file supplies the values of ImageName, Repository,
\* Version, Username and Password it supplied before, and a changed Tag is
\* "v" followed by Version in a run in which every stage succeeded.
C20_OnlyTagIsRewritten ==
    pc = "exited"
        => /\ \A k \in OtherKeys :
                 ValueOf(file, k) = ValueOf(fileAtStart, k)
           /\ PersistedTag(file) # PersistedTag(fileAtStart)
                 => /\ PersistedTag(file) =
                          "v" \o ValueOf(fileAtStart, "Version")
                    /\ FullSuccess

\* C21: a run in which the push succeeded and the rewrite of the config
\* then raised takes the failure path: once it has exited, no success
\* notification was sent, the first notification is the failure one,
\* rollback_deployment was called once with the Repository and the Tag of
\* run start, the exit status is 1, and the registry holds the new tag.
C21_PersistFailureTakesFailurePath ==
    /\ (result["push"] = "ok" /\ Failed("persist") /\ pc # "crashed")
          => (InHandler /\ <<repository, new_tag>> \in registry)
    /\ (result["push"] = "ok" /\ Failed("persist") /\ pc = "exited")
          => /\ ~SentSuccess
             /\ Len(notifications) = 2
             /\ notifications[1].text = "Deployment failed: " \o error
             /\ rollbackCalls =
                    << <<ValueOf(fileAtStart, "Repository"),
                         PersistedTag(fileAtStart)>> >>
             /\ exitCode = 1

\* C21 witness: such a run has exited, and the tag it pushed differs from
\* the Tag of run start.
C21_Witness ==
    /\ pc = "exited"
    /\ result["push"] = "ok"
    /\ Failed("persist")
    /\ new_tag # PersistedTag(fileAtStart)

\* C22: when the config file supplies no Docker section or no Tag at run
\* start, the run ends at the lookup: no stage begins, no notification is
\* attempted, rollback_deployment is not called and the file is neither
\* opened for writing nor changed.
C22_MissingTagStopsBeforeAnyStage ==
    (~HasOption(OldConfig, "Tag") /\ pc # "start")
        => /\ pc = "exited"
           /\ error = "KeyError"
           /\ started = <<>>
           /\ notifications = <<>>
           /\ rollbackCalls = <<>>
           /\ opens = 0
           /\ file = fileAtStart

\* C22 witness: a run ended at the lookup on a file with a Docker section
\* but no Tag.
C22_Witness ==
    /\ pc = "exited"
    /\ OldConfig.has
    /\ ~HasOption(OldConfig, "Tag")

\* The run before this one ended with status success
PreviousRunSucceeded ==
    Len(finished) >= 1 /\ finished[Len(finished)].status = "success"

\* C23: in a run that follows a successful run, the candidate tag equals
\* the rollback target read at run start, and when this run succeeds too
\* it publishes the tag of the previous run and leaves the config file as
\* it found it, Version included. A run whose rewrite of the config
\* completed has kept Version, whatever the run before it did.
C23_SecondSuccessRepublishesSameTag ==
    /\ result["persist"] = "ok"
          => ValueOf(file, "Version") = ValueOf(fileAtStart, "Version")
    /\ PreviousRunSucceeded
        => /\ new_tag # UNBOUND => new_tag = previous_tag
           /\ (new_tag # UNBOUND
                 /\ finished[Len(finished)].published # "<none>")
                 => new_tag = finished[Len(finished)].published
           /\ (pc = "exited" /\ Status = "success")
                 => /\ file = fileAtStart
                    /\ ValueOf(file, "Version")
                          = ValueOf(fileAtStart, "Version")
                    /\ PersistedTag(file) = previous_tag

\* C23 witness: two consecutive fully successful runs
C23_Witness ==
    /\ PreviousRunSucceeded
    /\ finished[Len(finished)].published # "<none>"
    /\ pc = "exited"
    /\ FullSuccess
    /\ previous_tag = new_tag

====
